---- MODULE Spec2Model ----
(***************************************************************************)
(* Model of the voicebot ASR service (src/backend/api_server.py): the      *)
(* keyword matcher detect_keywords, the startup sequence (lifespan), the   *)
(* lru_cache'd model loader get_asr_pipeline and the /health, /keywords    *)
(* and /transcribe handlers.                                               *)
(*                                                                         *)
(* Text is a sequence of characters. A character is a one-element name:    *)
(*   "r" "b" "i"  lowercase letters                                        *)
(*   "R"          uppercase letter, str.lower() gives "r"                  *)
(*   "I_dot"      U+0130, str.lower() gives the TWO code points            *)
(*                "i" U+0307                                               *)
(*   "dot"        U+0307 (combining dot above), not a \w character         *)
(*   "," " "      punctuation and blank, not \w characters                 *)
(***************************************************************************)
EXTENDS Integers, Sequences, FiniteSets, TLC

\* ---------------------------------------------------------------- bounds
MaxLen == 4

\* ------------------------------------------------------------ characters
InputChars == {"r", "R", "b", "I_dot", ",", " "}

\* [\w...] of word_pattern
IsWordChar(c) == c \in {"r", "R", "b", "I_dot", "i"}

\* str.lower() on one character: a sequence, because it may change length
LowerChar(c) ==
  CASE c = "R" -> <<"r">>
    [] c = "I_dot" -> <<"i", "dot">>
    [] OTHER -> <<c>>

RECURSIVE Lower(_)
Lower(s) == IF s = <<>> THEN <<>> ELSE LowerChar(Head(s)) \o Lower(Tail(s))

\* word_pattern.findall(s): the maximal runs of word characters, left to right
RECURSIVE FindallFrom(_, _, _, _)
FindallFrom(s, i, cur, acc) ==
  IF i > Len(s)
  THEN IF cur = <<>> THEN acc ELSE Append(acc, cur)
  ELSE IF IsWordChar(s[i])
       THEN FindallFrom(s, i + 1, Append(cur, s[i]), acc)
       ELSE FindallFrom(s, i + 1, <<>>, IF cur = <<>> THEN acc ELSE Append(acc, cur))

findall(s) == FindallFrom(s, 1, <<>>, <<>>)

Range(f) == {f[i] : i \in DOMAIN f}

\* the texts a transcript may be, up to MaxLen characters
Texts == UNION {[1..n -> InputChars] : n \in 0..MaxLen}

\* the entries a keywords.json may list
KeywordEntries == {<<"r">>, <<"b">>, <<"R", "b">>, <<"i">>}

\* ------------------------------------------------------ program constants
MAX_FILE_SIZE_MB == 25

ALLOWED_EXT == {".wav", ".mp3"}

SizeLimit == MAX_FILE_SIZE_MB * 1024 * 1024

GenericDetail == "Internal Server Error"

InitFailedDetail == "Model initialization failed"

\* ---------------------------------------------------------- model bounds
NumReqs == 2

\* most quarter milliseconds the clock advances between two readings
MaxAdvance == 3

Reqs == 1..NumReqs

\* upload sizes: exactly at the ceiling, one byte over it
Sizes == {SizeLimit, SizeLimit + 1}

\* upload filenames as (directory part, stem, extension)
FN(d, s, e) == [dir |-> d, stem |-> s, ext |-> e]

NoName == FN("", "", "")

Filenames ==
  { NoName,
    FN("", "audio", ".wav"),
    FN("", "audio", ".txt"),
    FN("", "audio", ""),
    FN("", "", ".wav"),
    FN("d/", "audio", ".wav"),
    FN("/", "audio", ".MP3") }

\* what the model may return for an upload
Transcripts == { <<>>, <<"R", ",", "b", " ", "r", " ">> }

\* most entries of a keyword list
MaxKeywords == 2

\* contents of the keyword source read at startup:
\*   missing          no file at KEYWORDS_PATH
\*   invalid_json     not JSON
\*   not_object       JSON whose top level is not an object
\*   no_key           an object without the field "keywords"
\*   null_value       {"keywords": null}
\*   nonstring_entry  a list holding `entries` and then a number
\*   string_value     {"keywords": "<string>"}, `entries` are its characters
\*   object_value     {"keywords": {...}}, `entries` are its keys
\*   list             {"keywords": [...]}
Source(k, e) == [kind |-> k, entries |-> e]

KeywordSources ==
  {Source(k, <<>>) : k \in {"missing", "invalid_json", "not_object", "no_key", "null_value"}}
    \cup { Source("nonstring_entry", << <<"r">> >>),
           Source("string_value", << <<"r">>, <<"b">> >>),
           Source("object_value", << <<"R", "b">> >>) }
    \cup {Source("list", e) : e \in UNION {[1..n -> KeywordEntries] : n \in 0..MaxKeywords}}

\* the keyword sources the request-handling specification starts from
ServiceSources == {Source("missing", <<>>), Source("list", << <<"R">>, <<"b">> >>)}

VARIABLES
  phase,         \* lifespan position: "boot", "keywords_loaded", "up", "crashed"
  keyword_set,   \* global keyword_set
  keywords_raw,  \* global keywords_raw
  asr_cache,     \* lru_cache of get_asr_pipeline: "empty" or "cached"
  req,           \* per /transcribe request: position, inputs, response
  running,       \* the request coroutine holding the event loop, 0 if none
  files,         \* scratch files on disk: <<root, name>>, root 0 is outside any tmpdir
  health_resp,   \* last response of GET /health
  keywords_resp, \* last response of GET /keywords
  text,          \* argument of a direct detect_keywords call
  detected,      \* its result
  kw_pc,         \* "off", "call", "done"
  tm,            \* clock and time stamps of one successful transcribe call
  keywords_file  \* content of the file at KEYWORDS_PATH

vars == <<phase, keyword_set, keywords_raw, asr_cache, req, running, files,
          health_resp, keywords_resp, text, detected, kw_pc, tm, keywords_file>>

service_vars == <<phase, keywords_raw, asr_cache, req, running, files,
                  health_resp, keywords_resp>>

\* ------------------------------------------------------- detect_keywords
\* Matches without the "not in found" test
MatchesNoDedup(token, found) == token \in keyword_set

\* Matches without the index lookup
MatchesNoIndex(token, found) == token \notin Range(found)

\* Matches by substring of a keyword instead of set membership
MatchesSubstring(token, found) ==
  /\ token \notin Range(found)
  /\ \E k \in keyword_set : \E a \in 1..Len(k) : \E b \in a..Len(k) :
       SubSeq(k, a, b) = token

\* the test of line 95
Matches(token, found) == token \in keyword_set /\ token \notin Range(found)

RECURSIVE DetectLoop(_, _, _)
DetectLoop(tokens, i, found) ==
  IF i > Len(tokens) THEN found
  ELSE DetectLoop(tokens, i + 1,
         IF Matches(tokens[i], found) THEN Append(found, tokens[i]) ELSE found)

\* the index iterated in alphabetical order, keeping the keywords the text holds
AlphabeticalIndex == << <<"b">>, <<"i">>, <<"r">>, <<"r", "b">> >>

detect_keywords_index_order(t) ==
  SelectSeq(AlphabeticalIndex,
            LAMBDA k : k \in keyword_set /\ k \in Range(findall(Lower(t))))

detect_keywords(t) == DetectLoop(findall(Lower(t)), 1, <<>>)

\* ------------------------------------------------ responses and requests
Resp(st, d, t, k) == [status |-> st, detail |-> d, text |-> t, keywords |-> k]

NoResp == Resp(0, "", <<>>, <<>>)

\* HTTP status code and the status field of HealthResponse
HealthResp(c, st) == [code |-> c, status |-> st]

NoHealth == HealthResp(0, "")

IdleReq ==
  [pc |-> "idle", has_file |-> FALSE, filename |-> NoName, size |-> -1,
   ops |-> {}, init |-> "none", failed_at |-> "none", text |-> <<>>,
   detected |-> <<>>, resp |-> NoResp]

\* ------------------------------------------------------------ exceptions
Exc(ty, st, msg) == [type |-> ty, status |-> st, msg |-> msg]

NoExc == Exc("none", 0, "")

HTTPException(st, d) == Exc("HTTPException", st, d)

RuntimeError(msg) == Exc("RuntimeError", 500, msg)

\* any other Exception subclass: CouldntDecodeError, OSError, TypeError, ...
OtherException(msg) == Exc("Exception", 500, msg)

\* ------------------------------------------------------------ validation
\* os.path.splitext(name)[1]: a basename that is only ".ext" has no extension
Splitext(fn) == IF fn.stem = "" THEN "" ELSE fn.ext

LowerExt(e) ==
  CASE e = ".WAV" -> ".wav"
    [] e = ".MP3" -> ".mp3"
    [] OTHER -> e

\* a validation that lets every filename through
validate_file_meta_off(fn) == NoExc

validate_file_meta(fn) ==
  IF LowerExt(Splitext(fn)) \notin ALLOWED_EXT
  THEN HTTPException(400, "Unsupported file extension")
  ELSE NoExc

\* ensure_size_limit that never raises
ensure_size_limit_off(size_bytes) == NoExc

ensure_size_limit(size_bytes) ==
  IF size_bytes > MAX_FILE_SIZE_MB * 1024 * 1024
  THEN HTTPException(413, "File too large")
  ELSE NoExc

\* the except clauses without the one for RuntimeError
exception_response_no_runtime(e) ==
  IF e.type = "HTTPException" THEN Resp(e.status, e.msg, <<>>, <<>>)
  ELSE Resp(500, GenericDetail, <<>>, <<>>)

\* the except clauses of transcribe, lines 160-166
exception_response(e) ==
  IF e.type = "HTTPException" THEN Resp(e.status, e.msg, <<>>, <<>>)
  ELSE IF e.type = "RuntimeError" THEN Resp(500, e.msg, <<>>, <<>>)
  ELSE Resp(500, GenericDetail, <<>>, <<>>)

\* ----------------------------------------------------------------- startup
\* open, json.load, .get or k.lower() raises for this source
LoadRaises(src) ==
  src.kind \in {"missing", "invalid_json", "not_object", "null_value", "nonstring_entry"}

load_keywords(src) ==
  IF LoadRaises(src) THEN [raw |-> <<>>, set |-> {}]
  ELSE IF src.kind = "no_key" THEN [raw |-> <<>>, set |-> {}]
  ELSE [raw |-> src.entries, set |-> {Lower(k) : k \in Range(src.entries)}]

\* lru_cache(maxsize=1) around the loader: a cached instance is returned, a
\* raised exception is not cached, so the body runs again on the next call
get_asr_pipeline(cache, load_ok) ==
  IF cache = "cached" THEN [cache |-> "cached", exc |-> NoExc, ran |-> FALSE]
  ELSE IF load_ok THEN [cache |-> "cached", exc |-> NoExc, ran |-> TRUE]
  ELSE [cache |-> "empty", exc |-> RuntimeError(InitFailedDetail), ran |-> TRUE]

\* lines 77-81: whatever get_asr_pipeline raised is swallowed
lifespan_after_model(e) == "up"

\* ------------------------------------------------------------ stage timings
\* time is counted in quarters of a millisecond
NoTimings == [conversion_sec |-> 0, asr_sec |-> 0, keyword_sec |-> 0, total_sec |-> 0]

IdleTm ==
  [pc |-> "off", now |-> 0, start |-> 0, conv_start |-> 0, conv_time |-> 0,
   asr_start |-> 0, asr_time |-> 0, kw_start |-> 0, kw_time |-> 0, total |-> 0,
   timings |-> NoTimings]

Init ==
  /\ phase = "boot"
  /\ keyword_set = {}
  /\ keywords_raw = <<>>
  /\ asr_cache = "empty"
  /\ req = [r \in Reqs |-> IdleReq]
  /\ running = 0
  /\ files = {}
  /\ health_resp = NoHealth
  /\ keywords_resp = NoResp
  /\ text = <<>>
  /\ detected = <<>>
  /\ kw_pc = "off"
  /\ tm = IdleTm
  /\ keywords_file \in ServiceSources

\* what no handler of the service writes
kw_vars == <<text, detected, kw_pc, tm, keywords_file>>

LifespanLoadKeywords ==
  /\ phase = "boot"
  /\ keywords_raw' = load_keywords(keywords_file).raw
  /\ keyword_set' = load_keywords(keywords_file).set
  /\ phase' = "keywords_loaded"
  /\ UNCHANGED <<asr_cache, req, running, files, health_resp, keywords_resp, kw_vars>>

LifespanLoadModel ==
  /\ phase = "keywords_loaded"
  /\ \E load_ok \in BOOLEAN :
       LET g == get_asr_pipeline(asr_cache, load_ok) IN
         /\ asr_cache' = g.cache
         /\ phase' = lifespan_after_model(g.exc)
  /\ UNCHANGED <<keyword_set, keywords_raw, req, running, files, health_resp,
                 keywords_resp, kw_vars>>

\* ------------------------------------------------------- /health, /keywords
\* a health check that reports on the model
health_reports_model ==
  IF asr_cache = "cached" THEN HealthResp(200, "ok") ELSE HealthResp(503, "degraded")

health == HealthResp(200, "ok")

Health ==
  /\ phase = "up"
  /\ health_resp' = health
  /\ UNCHANGED <<phase, keyword_set, keywords_raw, asr_cache, req, running, files,
                 keywords_resp, kw_vars>>

\* code points, for sorted()
Ord(c) ==
  CASE c = " " -> 32 [] c = "," -> 44 [] c = "R" -> 82 [] c = "b" -> 98
    [] c = "i" -> 105 [] c = "r" -> 114 [] c = "I_dot" -> 304 [] c = "dot" -> 775

RECURSIVE StrLess(_, _)
StrLess(a, b) ==
  IF b = <<>> THEN FALSE
  ELSE IF a = <<>> THEN TRUE
  ELSE IF Ord(Head(a)) # Ord(Head(b)) THEN Ord(Head(a)) < Ord(Head(b))
  ELSE StrLess(Tail(a), Tail(b))

RECURSIVE Insert(_, _)
Insert(x, sq) ==
  IF sq = <<>> THEN <<x>>
  ELSE IF StrLess(x, Head(sq)) THEN <<x>> \o sq
  ELSE <<Head(sq)>> \o Insert(x, Tail(sq))

\* sorted(): stable, ascending
RECURSIVE sorted(_)
sorted(sq) == IF sq = <<>> THEN <<>> ELSE Insert(sq[Len(sq)], sorted(SubSeq(sq, 1, Len(sq) - 1)))

list_keywords == Resp(200, "", <<>>, sorted(keywords_raw))

ListKeywords ==
  /\ phase = "up"
  /\ keywords_resp' = list_keywords
  /\ UNCHANGED <<phase, keyword_set, keywords_raw, asr_cache, req, running, files,
                 health_resp, kw_vars>>

\* ------------------------------------------------------------ /transcribe
\* str.strip() for the blank
RECURSIVE LStrip(_)
LStrip(s) == IF s # <<>> /\ Head(s) = " " THEN LStrip(Tail(s)) ELSE s

RECURSIVE RStrip(_)
RStrip(s) ==
  IF s # <<>> /\ s[Len(s)] = " " THEN RStrip(SubSeq(s, 1, Len(s) - 1)) ELSE s

Strip(s) == RStrip(LStrip(s))

\* os.path.join(tmpdir, file.filename): an absolute filename discards tmpdir
RawPath(r, fn) ==
  IF fn.dir = "/" THEN <<0, fn.stem \o fn.ext>> ELSE <<r, fn.dir \o fn.stem \o fn.ext>>

WavPath(r) == <<r, "audio.wav">>

\* leaving the TemporaryDirectory block removes the directory and all in it
Cleanup(r, fs) == {f \in fs : f[1] # r}

\* a handler that answers without ending
Finish_not_terminal(r, rs, stage) ==
  /\ req' = [req EXCEPT ![r] = [@ EXCEPT !.resp = rs, !.failed_at = stage]]
  /\ running' = 0

\* the handler of request r ends with response rs; the coroutine leaves the loop
Finish(r, rs, stage) ==
  /\ req' = [req EXCEPT ![r] = [@ EXCEPT !.pc = "done", !.resp = rs, !.failed_at = stage]]
  /\ running' = 0

\* a request arrives; FastAPI binds the required form field `file` (line 117)
\* and answers 422 itself, without calling the handler, when it is missing
Arrive(r) ==
  /\ phase = "up"
  /\ req[r].pc = "idle"
  /\ running = 0
  /\ \/ /\ Finish(r, Resp(422, "Field required", <<>>, <<>>), "bind")
     \/ /\ \E fn \in Filenames :
             req' = [req EXCEPT ![r] = [@ EXCEPT !.pc = "received", !.has_file = TRUE,
                                                 !.filename = fn]]
        /\ running' = r
  /\ UNCHANGED <<phase, keyword_set, keywords_raw, asr_cache, files, health_resp,
                 keywords_resp, kw_vars>>

\* lines 118-121, up to the await of line 125
ValidateMeta(r) ==
  /\ req[r].pc = "received"
  /\ running = r
  /\ IF req[r].filename = NoName
     THEN Finish(r, exception_response(HTTPException(400, "Empty filename")), "filename")
     ELSE IF validate_file_meta(req[r].filename) # NoExc
     THEN Finish(r, exception_response(validate_file_meta(req[r].filename)), "meta")
     ELSE /\ req' = [req EXCEPT ![r].pc = "reading"]
          /\ running' = 0
  /\ UNCHANGED <<phase, keyword_set, keywords_raw, asr_cache, files, health_resp,
                 keywords_resp, kw_vars>>

\* lines 125-126: file.read() completes (or raises), then the size check
ReadDone(r) ==
  /\ req[r].pc = "reading"
  /\ running = 0
  /\ \/ /\ req' = [req EXCEPT ![r] = [@ EXCEPT !.pc = "done", !.ops = @ \cup {"read"},
               !.resp = exception_response(OtherException("read failed")),
               !.failed_at = "read"]]
        /\ running' = 0
     \/ \E sz \in Sizes :
          IF ensure_size_limit(sz) # NoExc
          THEN /\ req' = [req EXCEPT ![r] = [@ EXCEPT !.pc = "done", !.size = sz,
                      !.ops = @ \cup {"read"},
                      !.resp = exception_response(ensure_size_limit(sz)),
                      !.failed_at = "size"]]
               /\ running' = 0
          ELSE /\ req' = [req EXCEPT ![r] = [@ EXCEPT !.pc = "sized", !.size = sz,
                      !.ops = @ \cup {"read"}]]
               /\ running' = r
  /\ UNCHANGED <<phase, keyword_set, keywords_raw, asr_cache, files, health_resp,
                 keywords_resp, kw_vars>>

\* lines 128-131: the temporary directory and the raw copy of the upload
Store(r) ==
  /\ req[r].pc = "sized"
  /\ running = r
  /\ \/ /\ req[r].filename.dir # "d/"
        /\ files' = files \cup {RawPath(r, req[r].filename)}
        /\ req' = [req EXCEPT ![r] = [@ EXCEPT !.pc = "stored", !.ops = @ \cup {"tmpdir"}]]
        /\ running' = r
     \/ \* open() fails: no such directory under tmpdir, or no permission outside it
        /\ req[r].filename.dir # ""
        /\ files' = Cleanup(r, files)
        /\ req' = [req EXCEPT ![r] = [@ EXCEPT !.pc = "done", !.ops = @ \cup {"tmpdir"},
               !.resp = exception_response(OtherException("open failed")),
               !.failed_at = "store"]]
        /\ running' = 0
  /\ UNCHANGED <<phase, keyword_set, keywords_raw, asr_cache, health_resp,
                 keywords_resp, kw_vars>>

\* lines 133-137: AudioSegment.from_file and export
Decode(r) ==
  /\ req[r].pc = "stored"
  /\ running = r
  /\ \/ /\ files' = files \cup {WavPath(r)}
        /\ req' = [req EXCEPT ![r] = [@ EXCEPT !.pc = "decoded", !.ops = @ \cup {"decode"}]]
        /\ running' = r
     \/ /\ files' = Cleanup(r, files)
        /\ req' = [req EXCEPT ![r] = [@ EXCEPT !.pc = "done", !.ops = @ \cup {"decode"},
               !.resp = exception_response(OtherException("could not decode")),
               !.failed_at = "decode"]]
        /\ running' = 0
  /\ UNCHANGED <<phase, keyword_set, keywords_raw, asr_cache, health_resp,
                 keywords_resp, kw_vars>>

\* line 140: pipe = get_asr_pipeline()
Acquire(r) ==
  /\ req[r].pc = "decoded"
  /\ running = r
  /\ \E load_ok \in BOOLEAN :
       LET g == get_asr_pipeline(asr_cache, load_ok)
           how == IF ~g.ran THEN "hit" ELSE IF g.exc = NoExc THEN "ok" ELSE "failed"
           o == IF g.ran THEN {"init"} ELSE {}
       IN /\ asr_cache' = g.cache
          /\ IF g.exc = NoExc
             THEN /\ req' = [req EXCEPT ![r] = [@ EXCEPT !.pc = "acquired", !.init = how,
                         !.ops = @ \cup o]]
                  /\ running' = r
                  /\ files' = files
             ELSE /\ req' = [req EXCEPT ![r] = [@ EXCEPT !.pc = "done", !.init = how,
                         !.ops = @ \cup o, !.resp = exception_response(g.exc),
                         !.failed_at = "init"]]
                  /\ running' = 0
                  /\ files' = Cleanup(r, files)
  /\ UNCHANGED <<phase, keyword_set, keywords_raw, health_resp, keywords_resp, kw_vars>>

\* lines 141-143: inference, then result.get("text", "").strip()
Infer(r) ==
  /\ req[r].pc = "acquired"
  /\ running = r
  /\ \/ \E t \in Transcripts :
          /\ req' = [req EXCEPT ![r] = [@ EXCEPT !.pc = "transcribed", !.text = Strip(t),
                 !.ops = @ \cup {"infer"}]]
          /\ running' = r
          /\ files' = files
     \/ \E e \in {RuntimeError("CUDA out of memory"), OtherException("inference failed")} :
          /\ req' = [req EXCEPT ![r] = [@ EXCEPT !.pc = "done", !.ops = @ \cup {"infer"},
                 !.resp = exception_response(e), !.failed_at = "infer"]]
          /\ running' = 0
          /\ files' = Cleanup(r, files)
  /\ UNCHANGED <<phase, keyword_set, keywords_raw, asr_cache, health_resp,
                 keywords_resp, kw_vars>>

\* a matcher that takes what it found out of the index
Match_mutates_index(r) ==
  /\ req[r].pc = "transcribed"
  /\ running = r
  /\ req' = [req EXCEPT ![r] = [@ EXCEPT !.pc = "matched",
         !.detected = detect_keywords(req[r].text), !.ops = @ \cup {"detect"}]]
  /\ keyword_set' = keyword_set \ Range(detect_keywords(req[r].text))
  /\ UNCHANGED <<phase, keywords_raw, asr_cache, running, files, health_resp,
                 keywords_resp, kw_vars>>

\* lines 145-147
Match(r) ==
  /\ req[r].pc = "transcribed"
  /\ running = r
  /\ req' = [req EXCEPT ![r] = [@ EXCEPT !.pc = "matched",
         !.detected = detect_keywords(req[r].text), !.ops = @ \cup {"detect"}]]
  /\ UNCHANGED <<phase, keyword_set, keywords_raw, asr_cache, running, files, health_resp,
                 keywords_resp, kw_vars>>

\* lines 147-159: the with block ends, the response is assembled; removing
\* the temporary directory can raise (OSError), which line 164 catches.  A
\* request meets at most one failure: the removal is taken to succeed on
\* the paths that already carry an exception.
Respond(r) ==
  /\ req[r].pc = "matched"
  /\ running = r
  /\ \/ /\ files' = Cleanup(r, files)
        /\ Finish(r, Resp(200, "", req[r].text, req[r].detected), "none")
     \/ /\ files' = files
        /\ Finish(r, exception_response(OtherException("cleanup failed")), "cleanup")
  /\ UNCHANGED <<phase, keyword_set, keywords_raw, asr_cache, health_resp,
                 keywords_resp, kw_vars>>

Transcribe(r) ==
  \/ Arrive(r) \/ ValidateMeta(r) \/ ReadDone(r) \/ Store(r) \/ Decode(r)
  \/ Acquire(r) \/ Infer(r) \/ Match(r) \/ Respond(r)

Next ==
  \/ LifespanLoadKeywords
  \/ LifespanLoadModel
  \/ Health
  \/ ListKeywords
  \/ \E r \in Reqs : Transcribe(r)

Spec == Init /\ [][Next]_vars

\* the statements of the handler once the request has arrived
Step(r) ==
  \/ ValidateMeta(r) \/ ReadDone(r) \/ Store(r) \/ Decode(r)
  \/ Acquire(r) \/ Infer(r) \/ Match(r) \/ Respond(r)

\* the event loop runs every coroutine that is ready, and file.read(), the
\* decoder and the model return
FairSpec == Spec /\ \A r \in Reqs : WF_vars(Step(r))

\* ------------------------------- startup over every keyword source content
BootInit ==
  /\ phase = "boot"
  /\ keyword_set = {}
  /\ keywords_raw = <<>>
  /\ asr_cache = "empty"
  /\ req = [r \in Reqs |-> IdleReq]
  /\ running = 0
  /\ files = {}
  /\ health_resp = NoHealth
  /\ keywords_resp = NoResp
  /\ text = <<>>
  /\ detected = <<>>
  /\ kw_pc = "off"
  /\ tm = IdleTm
  /\ keywords_file \in KeywordSources

BootNext ==
  \/ LifespanLoadKeywords
  \/ LifespanLoadModel
  \/ Health
  \/ ListKeywords

BootSpec == BootInit /\ [][BootNext]_vars

\* ---------------------------------- direct calls of detect_keywords(text)
KwInit ==
  /\ text \in Texts
  /\ keyword_set \in SUBSET {Lower(k) : k \in KeywordEntries}
  /\ detected = <<>>
  /\ kw_pc = "call"
  /\ phase = "up"
  /\ keywords_raw = <<>>
  /\ asr_cache = "empty"
  /\ req = [r \in Reqs |-> IdleReq]
  /\ running = 0
  /\ files = {}
  /\ health_resp = NoHealth
  /\ keywords_resp = NoResp
  /\ tm = IdleTm
  /\ keywords_file = Source("missing", <<>>)

CallDetect ==
  /\ kw_pc = "call"
  /\ detected' = detect_keywords(text)
  /\ kw_pc' = "done"
  /\ UNCHANGED <<text, keyword_set, service_vars, tm, keywords_file>>

KwNext == CallDetect

KwSpec == KwInit /\ [][KwNext]_vars

\* ------------------------------- the clock readings of a transcribe call
\* round(x, 3) of a duration of q quarter milliseconds, in milliseconds:
\* the nearest whole millisecond, a tie going to the even one
Round3(q) ==
  LET lo == IF q >= 0 THEN q \div 4 ELSE -((-q + 3) \div 4)
      rest == q - 4 * lo
  IN IF rest < 2 THEN lo
     ELSE IF rest > 2 THEN lo + 1
     ELSE IF lo % 2 = 0 THEN lo ELSE lo + 1

\* what time.time() does between two readings: stand still or advance
ClockSteps == 0..MaxAdvance

TmInit ==
  /\ tm = [IdleTm EXCEPT !.pc = "start"]
  /\ phase = "up"
  /\ keyword_set = {}
  /\ keywords_raw = <<>>
  /\ asr_cache = "cached"
  /\ req = [r \in Reqs |-> IdleReq]
  /\ running = 0
  /\ files = {}
  /\ health_resp = NoHealth
  /\ keywords_resp = NoResp
  /\ text = <<>>
  /\ detected = <<>>
  /\ kw_pc = "off"
  /\ keywords_file = Source("missing", <<>>)

\* the clock moves while a stage (or the code between two stages) runs
Tick(d) == [tm EXCEPT !.now = tm.now + d]

TmFrame == UNCHANGED <<keyword_set, service_vars, text, detected, kw_pc, keywords_file>>

\* line 123
TmStart ==
  /\ tm.pc = "start"
  /\ tm' = [tm EXCEPT !.start = tm.now, !.pc = "conv_start"]
  /\ TmFrame

\* line 133, after the read, the size check and the raw copy
TmConvStart ==
  /\ tm.pc = "conv_start"
  /\ \E d \in ClockSteps :
       tm' = [Tick(d) EXCEPT !.conv_start = tm.now + d, !.pc = "conv_end"]
  /\ TmFrame

\* line 137, after the conversion
TmConvEnd ==
  /\ tm.pc = "conv_end"
  /\ \E d \in ClockSteps :
       tm' = [Tick(d) EXCEPT !.conv_time = tm.now + d - tm.conv_start, !.pc = "asr_start"]
  /\ TmFrame

\* line 139
TmAsrStart ==
  /\ tm.pc = "asr_start"
  /\ tm' = [tm EXCEPT !.asr_start = tm.now, !.pc = "asr_end"]
  /\ TmFrame

\* line 143, after model acquisition and inference
TmAsrEnd ==
  /\ tm.pc = "asr_end"
  /\ \E d \in ClockSteps :
       tm' = [Tick(d) EXCEPT !.asr_time = tm.now + d - tm.asr_start, !.pc = "kw_start"]
  /\ TmFrame

\* line 145
TmKwStart ==
  /\ tm.pc = "kw_start"
  /\ tm' = [tm EXCEPT !.kw_start = tm.now, !.pc = "kw_end"]
  /\ TmFrame

\* line 147, after detect_keywords
TmKwEnd ==
  /\ tm.pc = "kw_end"
  /\ \E d \in ClockSteps :
       tm' = [Tick(d) EXCEPT !.kw_time = tm.now + d - tm.kw_start, !.pc = "total"]
  /\ TmFrame

\* line 149, after the temporary directory is removed
TmTotal ==
  /\ tm.pc = "total"
  /\ \E d \in ClockSteps :
       tm' = [Tick(d) EXCEPT !.total = tm.now + d - tm.start, !.pc = "respond"]
  /\ TmFrame

\* lines 150-159
TmRespond ==
  /\ tm.pc = "respond"
  /\ tm' = [tm EXCEPT !.pc = "done",
              !.timings = [conversion_sec |-> Round3(tm.conv_time),
                           asr_sec |-> Round3(tm.asr_time),
                           keyword_sec |-> Round3(tm.kw_time),
                           total_sec |-> Round3(tm.total)]]
  /\ TmFrame

TmNext ==
  \/ TmStart \/ TmConvStart \/ TmConvEnd \/ TmAsrStart \/ TmAsrEnd
  \/ TmKwStart \/ TmKwEnd \/ TmTotal \/ TmRespond

TmSpec == TmInit /\ [][TmNext]_vars

\* ------------------------------------------- properties of detect_keywords
\* the words of s by position: <<first, last>> of every maximal run of word
\* characters
Occ(s) ==
  { o \in (1..Len(s)) \X (1..Len(s)) :
      /\ o[1] <= o[2]
      /\ \A k \in o[1]..o[2] : IsWordChar(s[k])
      /\ o[1] = 1 \/ ~IsWordChar(s[o[1] - 1])
      /\ o[2] = Len(s) \/ ~IsWordChar(s[o[2] + 1]) }

WordAt(s, o) == SubSeq(s, o[1], o[2])

Count(f, x) == Cardinality({i \in DOMAIN f : f[i] = x})

Punctuation == {","}

\* the occurrences of word k in the text as the matcher reads it
OccOf(k) == {o \in Occ(Lower(text)) : WordAt(Lower(text), o) = k}

\* every occurrence of k is directly followed by punctuation, and there are several
RepeatedBeforePunctuation(k) ==
  /\ Cardinality(OccOf(k)) >= 2
  /\ \A o \in OccOf(k) :
       o[2] < Len(Lower(text)) /\ Lower(text)[o[2] + 1] \in Punctuation

\* C1: every element of detect_keywords(text) is spelled as the token was
\* spelled where it first appeared in the text (text casing, not lowercase).
C1_TextCasingPreserved ==
  kw_pc = "done" =>
    \A i \in DOMAIN detected :
      \E o \in Occ(text) :
        /\ WordAt(text, o) = detected[i]
        /\ \A p \in Occ(text) :
             p[1] < o[1] => Lower(WordAt(text, p)) # Lower(detected[i])

C3_OrderedByFirstOccurrence ==
  kw_pc = "done" =>
    \A i, j \in DOMAIN detected :
      i < j =>
        \E oi \in OccOf(detected[i]) :
          \A oj \in OccOf(detected[j]) : oi[1] < oj[1]

C3_Witness ==
  /\ kw_pc = "done"
  /\ detected = << <<"r">>, <<"b">> >>

HasAllowedExtension(fn) == fn.stem # "" /\ fn.ext \in {".wav", ".WAV", ".mp3", ".MP3"}

ExpensiveOps == {"tmpdir", "decode", "init", "infer", "detect"}

OwnFiles(r) == {f \in files : f[1] = r}

C7_MissingFileIs400 ==
  \A r \in Reqs :
    (req[r].pc = "done" /\ (~req[r].has_file \/ req[r].filename = NoName)) =>
      req[r].resp.status = 400 /\ req[r].ops = {}

\* C8: startup completes whatever model and keyword loading did, and from then
\* on GET /health can always be answered and answers 200 with status "ok".
C8_HealthAlwaysOk ==
  /\ phase # "crashed"
  /\ phase = "keywords_loaded" => ENABLED LifespanLoadModel
  /\ phase = "up" => ENABLED Health
  /\ health_resp # NoHealth => health_resp = HealthResp(200, "ok")

C8_Witness ==
  /\ phase = "up"
  /\ asr_cache = "empty"
  /\ keyword_set = {}
  /\ \E r \in Reqs : req[r].init = "failed"
  /\ health_resp = HealthResp(200, "ok")

\* C9: while no model instance is cached (every initialization so far failed),
\* a request that passed validation and decoding either is about to re-attempt
\* initialization or has re-attempted it and ended with 500 "Model
\* initialization failed"; every request whose initialization failed carries
\* that response, and a 200 is only ever given with a cached instance.
C9_InitFailureReported ==
  \A r \in Reqs :
    /\ (asr_cache = "empty" /\ "decode" \in req[r].ops /\ req[r].failed_at # "decode") =>
         \/ req[r].pc = "decoded" /\ ENABLED Acquire(r)
         \/ /\ req[r].pc = "done"
            /\ "init" \in req[r].ops
            /\ req[r].resp = Resp(500, "Model initialization failed", <<>>, <<>>)
    /\ req[r].init = "failed" =>
         /\ req[r].pc = "done"
         /\ req[r].resp = Resp(500, "Model initialization failed", <<>>, <<>>)
    /\ req[r].resp.status = 200 => asr_cache = "cached"

C9_Witness ==
  /\ asr_cache = "empty"
  /\ \E r1, r2 \in Reqs :
       /\ r1 # r2
       /\ req[r1].init = "failed" /\ req[r1].resp.status = 500
       /\ req[r2].init = "failed" /\ req[r2].resp.status = 500

\* C10: a request whose upload passes the extension and size checks but cannot
\* be decoded ends with status 500 and a reason that differs from the reason
\* given for an unexpected internal error.
C10_DecodeFailureDistinguished ==
  \A r \in Reqs :
    (req[r].pc = "done" /\ req[r].failed_at = "decode") =>
      /\ req[r].resp.status = 500
      /\ req[r].resp.detail # "Internal Server Error"

\* C11: every unexpected failure while a request is handled (reading, writing
\* the scratch file, decoding, inference), whatever the exception type, is
\* answered with a 5xx whose reason is the fixed text "Internal Server Error"
\* and never the text of the exception.
C11_GenericReasonForUnexpectedFailure ==
  \A r \in Reqs :
    (req[r].pc = "done" /\ req[r].failed_at \in {"read", "store", "decode", "infer"}) =>
      /\ req[r].resp.status >= 500
      /\ req[r].resp.detail = "Internal Server Error"

\* C12: the timings of a successful response have exactly the keys
\* conversion_sec, asr_sec, keyword_sec, total_sec, every value is
\* non-negative, and the rounded values satisfy
\* total_sec >= conversion_sec + asr_sec + keyword_sec.
C12_TimingsConsistent ==
  tm.pc = "done" =>
    /\ DOMAIN tm.timings = {"conversion_sec", "asr_sec", "keyword_sec", "total_sec"}
    /\ \A k \in DOMAIN tm.timings : tm.timings[k] >= 0
    /\ tm.timings.total_sec >=
         tm.timings.conversion_sec + tm.timings.asr_sec + tm.timings.keyword_sec

\* the ways the keyword source can be wrong that C13 names: no file, invalid
\* JSON, a structure other than an object with a list under "keywords", and
\* a list with an entry that is not a string
FailedSourceKinds ==
  {"missing", "invalid_json", "not_object", "null_value", "string_value",
   "object_value", "nonstring_entry"}

\* C13: when the keyword source is missing, is not JSON, has the wrong
\* structure or holds a non-string entry, load_keywords leaves both halves of
\* the index empty, startup still completes, and GET /keywords answers with
\* the empty list.
C13_FailedSourceGivesEmptyIndex ==
  (phase # "boot" /\ keywords_file.kind \in FailedSourceKinds) =>
    /\ keyword_set = {}
    /\ keywords_raw = <<>>
    /\ (phase = "keywords_loaded" => ENABLED LifespanLoadModel)
    /\ (keywords_resp # NoResp => keywords_resp.keywords = <<>>)

\* request r is inside its `with tempfile.TemporaryDirectory()` block
InTmpdir(r) == req[r].pc \in {"stored", "decoded", "acquired", "transcribed", "matched"}

\* C14: on every exit path of /transcribe every scratch file the request
\* created (the raw copy of the upload and the converted audio.wav) is gone
\* when the response is produced: while no request is inside its temporary
\* directory block, no scratch file exists.
C14_NoScratchLeftBehind ==
  (\A r \in Reqs : ~InTmpdir(r)) => files = {}

\* the requests that executed the loading body of get_asr_pipeline
Loaders == {r \in Reqs : "init" \in req[r].ops}

\* C15: model initialization is single-flight: of the requests that arrive
\* before an instance is cached at most one executes the loading body of
\* get_asr_pipeline, and every request that got a pipeline uses the cached
\* instance.
C15_SingleFlightInit ==
  /\ Cardinality(Loaders) <= 1
  /\ \A r \in Reqs :
       req[r].pc \in {"acquired", "transcribed", "matched"} => asr_cache = "cached"

\* the steps of one request in the order of the code, and the stage names
\* under which a failure of each is recorded
StepOrder == <<"read", "tmpdir", "decode", "init", "infer", "detect">>

\* the steps that come after the step that failed at `stage`
StepsAfter(stage) ==
  CASE stage \in {"bind", "filename", "meta"} -> Range(StepOrder)
    [] stage \in {"read", "size"} -> Range(StepOrder) \ {"read"}
    [] stage = "store" -> {"decode", "init", "infer", "detect"}
    [] stage = "decode" -> {"init", "infer", "detect"}
    [] stage = "init" -> {"infer", "detect"}
    [] stage = "infer" -> {"detect"}
    [] OTHER -> {}

\* C16: the steps of a request run in the order extension validation, size
\* validation, decode, transcribe (model acquisition, inference), keyword
\* match, assemble; a step has run only if every earlier step succeeded;
\* after a failed step no later step has run, and the error response carries
\* no text and no keywords.
C16_FixedStepOrder ==
  \A r \in Reqs :
    LET q == req[r] IN
    /\ "read" \in q.ops => HasAllowedExtension(q.filename)
    /\ "tmpdir" \in q.ops => "read" \in q.ops /\ q.size >= 0 /\ q.size <= SizeLimit
    /\ "decode" \in q.ops => "tmpdir" \in q.ops
    /\ "init" \in q.ops => "decode" \in q.ops
    /\ "infer" \in q.ops => "decode" \in q.ops /\ q.init \in {"hit", "ok"}
    /\ "detect" \in q.ops => "infer" \in q.ops
    /\ (q.pc = "done" /\ q.failed_at = "none") =>
         /\ q.resp.status = 200
         /\ {"read", "tmpdir", "decode", "infer", "detect"} \subseteq q.ops
    /\ (q.pc = "done" /\ q.failed_at # "none") =>
         /\ q.ops \cap StepsAfter(q.failed_at) = {}
         /\ q.resp.status >= 400
         /\ q.resp.text = <<>>
         /\ q.resp.keywords = <<>>

\* one request failed in the inference after decoding, another ran every step
C16_Witness ==
  \E r1, r2 \in Reqs :
    /\ req[r1].pc = "done" /\ req[r1].failed_at = "infer"
    /\ req[r2].pc = "done" /\ req[r2].resp.status = 200 /\ req[r2].resp.keywords # <<>>

\* a step of request r that ends it with an error response
FailStep(r) == Transcribe(r) /\ req'[r].pc = "done" /\ req'[r].failed_at # "none"

\* the states of a request in which the next statement can raise
CanRaise == {"reading", "stored", "acquired", "matched"}

\* Completed or Failed, never both and never neither, and only when finished
OneTerminalState ==
  \A r \in Reqs :
    /\ req[r].pc # "done" => req[r].resp = NoResp
    /\ req[r].pc = "done" =>
         \/ req[r].resp.status = 200 /\ req[r].failed_at = "none"
         \/ req[r].resp.status >= 400 /\ req[r].failed_at # "none"

\* from every state of a request that is under way an error response can
\* follow: at once where a statement can raise, else after the next step
FailedReachable ==
  \A r \in Reqs :
    /\ req[r].pc \in {"stored", "acquired", "matched"} => ENABLED FailStep(r)
    /\ (req[r].pc = "reading" /\ running = 0) => ENABLED FailStep(r)
    /\ req[r].pc \in {"received", "sized", "decoded", "transcribed"} => ENABLED Step(r)

LeadsToRaise ==
  \A r \in Reqs :
    (req[r].pc \in {"received", "sized", "decoded", "transcribed"} /\ req'[r] # req[r]) =>
      req'[r].pc \in CanRaise \cup {"done"}

Absorbing == \A r \in Reqs : req[r].pc = "done" => req'[r] = req[r]

\* C17: every request that arrived eventually ends, with exactly one of a
\* 200 response (Completed) and an error response (Failed); an error
\* response can follow from every state of a request under way; a finished
\* request takes no further step and gets no second response.
C17_EveryRequestEnds ==
  /\ []OneTerminalState
  /\ []FailedReachable
  /\ [][LeadsToRaise /\ Absorbing]_vars
  /\ \A r \in Reqs : (req[r].pc # "idle") ~> (req[r].pc = "done")

\* one request completed, another failed in the very last step
C17_Witness ==
  \E r1, r2 \in Reqs :
    /\ req[r1].pc = "done" /\ req[r1].resp.status = 200
    /\ req[r2].pc = "done" /\ req[r2].failed_at = "cleanup"

\* two answered transcripts that are equal carry equal keywords
SameTextSameKeywords ==
  \A r1, r2 \in Reqs :
    (/\ req[r1].pc = "done" /\ req[r1].resp.status = 200
     /\ req[r2].pc = "done" /\ req[r2].resp.status = 200
     /\ req[r1].resp.text = req[r2].resp.text) =>
      req[r1].resp.keywords = req[r2].resp.keywords

\* C18: once load_keywords has run at startup, no step of /health, /keywords
\* or /transcribe, successful or failed, in any interleaving, changes
\* keyword_set or keywords_raw; two requests with the same transcript get the
\* same detected keywords.
C18_IndexImmutableAfterStartup ==
  /\ [][phase # "boot" => UNCHANGED <<keyword_set, keywords_raw>>]_vars
  /\ []SameTextSameKeywords

\* two requests were answered with the same transcript and found keywords,
\* and /keywords and /health were served as well
C18_Witness ==
  /\ keywords_resp # NoResp
  /\ health_resp # NoHealth
  /\ \E r1, r2 \in Reqs :
       /\ r1 # r2
       /\ req[r1].pc = "done" /\ req[r1].resp.status = 200
       /\ req[r2].pc = "done" /\ req[r2].resp.status = 200
       /\ req[r1].resp.text = req[r2].resp.text
       /\ req[r1].resp.keywords # <<>>

\* C19: after load_keywords, whatever the keyword source holds, keyword_set
\* is exactly the set of the lowercased entries of keywords_raw (the list
\* GET /keywords returns sorted), and no two entries of keywords_raw are
\* equal when compared in lowercase.
C19_IndexConsistentAndUnique ==
  phase # "boot" =>
    /\ keyword_set = {Lower(keywords_raw[i]) : i \in DOMAIN keywords_raw}
    /\ \A i, j \in DOMAIN keywords_raw :
         Lower(keywords_raw[i]) = Lower(keywords_raw[j]) => i = j

\* the paths request r writes and reads: lines 129 and 135
ScratchPaths(r) == {RawPath(r, req[r].filename), WavPath(r)}

\* request r is being handled and its filename has passed validation
InFlight(r) ==
  req[r].pc \in {"reading", "sized", "stored", "decoded", "acquired", "transcribed", "matched"}

\* C20: two /transcribe requests that are handled at the same time, whatever
\* their filenames (equal, with a directory part, absolute), use disjoint
\* scratch paths, and no file of a request under way is shared with another.
C20_ScratchPathsDisjoint ==
  \A r1, r2 \in Reqs :
    (r1 # r2 /\ InFlight(r1) /\ InFlight(r2)) =>
      ScratchPaths(r1) \cap ScratchPaths(r2) = {}

====
